---- MODULE Spec2Model ----
(***************************************************************************)
(* txcv: the leaky-bucket rate limiter (src/rate_limit.rs) and the         *)
(* translation pipeline built on it (src/translate.rs).                    *)
(*                                                                         *)
(* Time is measured in milliseconds on the monotonic clock (Instant).  The *)
(* clock advances in steps of TimeStep; a clock value stands for the       *)
(* half-open interval of real time that starts at it, so the quotient      *)
(* floor(time_passed / refill_interval), which the code takes in f64, is   *)
(* the integer quotient here.                                              *)
(***************************************************************************)
EXTENDS Integers, Sequences, FiniteSets, TLC

(* ------------------------------ bounds -------------------------------- *)

\* acquirer tasks sharing one bucket
NProcs == 2
\* the clock stops at MaxTime (ms)
MaxTime == 450
\* the clock stops at MaxRunTime (ms) while Translate::run is running
MaxRunTime == 150
\* the clock advances by TimeStep (ms)
TimeStep == 50
\* largest `max` a bucket is built with in the bucket specification
MaxCap == 3
\* most words of a batch, and most words entered at the prompt
MaxWords == 2
\* the remote service answers RequestLimitExceeded to at most MaxCalls - 1
\* attempts for one word
MaxCalls == 3
\* the clock of an observed bucket stops at MaxObsTime
MaxObsTime == 300
\* under the fair specification no acquire is called after MaxFairCall
MaxFairCall == 100

(* ------------------------- program constants -------------------------- *)

\* Builder::build defaults
DEFAULT_MAX == 120
DEFAULT_TOKENS == 0
DEFAULT_REFILL_INTERVAL == 1000
DEFAULT_REFILL_AMOUNT == 1
\* Translate::run_batch; "translate api rate limit is 5/s"
MAX_CONCURRENT == 5
REFILL_INTERVAL == 100
RATE_CEILING == 5
RATE_WINDOW == 1000
\* tencentcloud_api_retry
RATE_LIMIT_CODE == "RequestLimitExceeded"
\* Translate::get_source_lang
RECOGNITION_CODE == "FailedOperation.LanguageRecognitionErr"

Procs == 1..NProcs
NoHolder == 0
\* the task that runs Translate::run
Task == 1

\* Option<T>
None == <<>>
Some(v) == <<v>>
UnwrapOr(o, d) == IF o = None THEN d ELSE o[1]

\* Language::as_str of the values of lang.rs
Languages == {"zh", "en", "jp"}
\* language codes the remote detect operation answers
DetectedLangs == {"zh", "en", "jp", "fr"}
\* codes of the failures of a remote call other than the two the program names:
\* an Api error of another code, and an error that is not an Api error
OtherErrors == {"InternalError", "Transport"}
Modes == {"Batch", "Interact", "FromStdin"}

VARIABLES
    max,             \* LeakyBucketInner.max
    refill_interval, \* LeakyBucketInner.refill_interval (ms)
    refill_amount,   \* LeakyBucketInner.refill_amount
    tokens,          \* LeakyBucketInner.tokens
    last_refill,     \* LeakyBucketInner.last_refill (ms)
    lock,            \* LeakyBucketInner.lock: the task holding the mutex, or NoHolder
    now,             \* Instant::now() (ms)
    apc,             \* per task: position in LeakyBucket::acquire
    amount,          \* per task: the argument of the acquire in progress
    target_time,     \* per task: target_time of the sleep in progress
    underflow,       \* a `tokens -= amount` was executed with tokens < amount
    mode,            \* Mode given to Translate::run
    nwords,          \* Mode::Batch(words): the number of words; word i is the integer i
    source,          \* Option<Language> given to Translate::run
    target,          \* Option<Language> given to Translate::run
    cur,             \* position of the word being processed (0: none yet)
    jpc,             \* position of Translate::run
    calls,           \* invocations of the closure by tencentcloud_api_retry, this word
    outcomes,        \* the results of those invocations, in order
    debits,          \* tokens debited from the bucket for this word
    detects,         \* LanguageDetect requests sent for this word
    translates,      \* TextTranslate requests sent for this word
    req,             \* the TextTranslateRequest in flight or last sent
    fres,            \* the Result translate_word returned: "Ok" or the error
    translated,      \* target_text of the last successful response
    printed,         \* the lines printed: <<word, translated_word>>
    result,          \* what Translate::run returned: "running", "Ok" or the error
    admits,          \* the times at which the bucket debited a token in this run
    att,             \* this invocation of translate_word: the result of its
                     \* LanguageDetect call, and whether it sent its TextTranslate
    requests,        \* requests sent to the remote service in this run
    called_at,       \* observed bucket, per task: the time of the call of its acquire
                     \* in progress (0: none)
    log,             \* observed bucket: its first two completed acquires, in the
                     \* order of their debits
    from_stdin,      \* the argument of Translate::new: stdin is not a terminal
    store,           \* the keyring: per key of SERVICE, what get_password returns
    npc,             \* position of Translate::new
    prompts,         \* the keys Translate::new has prompted for, in order
    writes,          \* the keys Translate::new has called set_password for, in order
    new_result       \* what Translate::new returned: "running", "Ok" or the error

bucketVars == <<max, refill_interval, refill_amount, tokens, last_refill, lock,
                now, apc, amount, target_time, underflow>>

runVars == <<mode, nwords, source, target, cur, jpc, calls, outcomes, debits,
             detects, translates, req, fres, translated, printed, result, admits,
             att, requests>>

obsVars == <<called_at, log>>

credVars == <<from_stdin, store, npc, prompts, writes, new_result>>

vars == <<bucketVars, runVars, obsVars, credVars>>

(* --------------------------- rate_limit.rs ---------------------------- *)

\* u32 values: v < 2^31 is represented by v, and v >= 2^31 by v - 2^32, so that
\* wrapping addition and subtraction are + and - and a wrapped difference
\* a - b with a < b is the negative number a - b.  LtU32 is the order of u32.
LtU32(a, b) ==
    IF (a < 0) = (b < 0) THEN a < b ELSE b < 0

\* u32::min
MinU32(a, b) == IF LtU32(a, b) THEN a ELSE b

\* refills_since of update_tokens
RefillsSince(t) == (t - last_refill) \div refill_interval

\* update_tokens without `*tokens = tokens.min(self.max)`
UpdateTokensNoCap(t) ==
    LET refills_since == RefillsSince(t)
    IN  [tokens |-> tokens + refill_amount * refills_since,
         last_refill |-> last_refill + refill_interval * refills_since]

\* update_tokens with `*last_refill = Instant::now()`
UpdateTokensFromNow(t) ==
    LET refills_since == RefillsSince(t)
        added == tokens + refill_amount * refills_since
    IN  [tokens |-> MinU32(added, max),
         last_refill |-> t]

\* the pair (tokens, last_refill) update_tokens leaves behind when it runs at time t
UpdateTokens(t) ==
    LET refills_since == RefillsSince(t)
        added == tokens + refill_amount * refills_since
    IN  [tokens |-> MinU32(added, max),
         last_refill |-> last_refill + refill_interval * refills_since]

\* refills_needed of acquire computed for one token less than the shortfall
RefillsNeededShort(current, amt) ==
    LET tokens_needed == amt - current - 1
        refills_needed == tokens_needed \div refill_amount
        refills_needed_remainder == tokens_needed % refill_amount
    IN  IF refills_needed_remainder > 0 THEN refills_needed + 1 ELSE refills_needed

\* refills_needed of acquire, for the token count `current`
RefillsNeeded(current, amt) ==
    LET tokens_needed == amt - current
        refills_needed == tokens_needed \div refill_amount
        refills_needed_remainder == tokens_needed % refill_amount
    IN  IF refills_needed_remainder > 0 THEN refills_needed + 1 ELSE refills_needed

\* acquire without `self.lock.lock().await`
LockFreeAlways == TRUE

\* the mutex of LeakyBucketInner is free
LockFree == lock = NoHolder

\* LeakyBucket::acquire without its assert!
AssertAmountOmitted(amt) == TRUE

\* the condition of the assert! of LeakyBucket::acquire
AssertAmount(amt) == amt <= max

\* LeakyBucket::acquire(amt): the assertion, then the task queues for the mutex
AcquireCall(p, amt) ==
    /\ apc[p] \in {"idle", "returned"}
    /\ amount' = [amount EXCEPT ![p] = amt]
    /\ apc' = [apc EXCEPT ![p] = IF AssertAmount(amt) THEN "lock" ELSE "panicked"]
    /\ UNCHANGED <<max, refill_interval, refill_amount, tokens, last_refill, lock,
                   now, target_time, underflow>>

\* LeakyBucketInner::acquire up to the sleep: lock, update_tokens, the shortfall test
AcquireLock(p) ==
    /\ apc[p] = "lock"
    /\ LockFree
    /\ lock' = p
    /\ LET u == UpdateTokens(now)
       IN  /\ tokens' = u.tokens
           /\ last_refill' = u.last_refill
           /\ IF LtU32(u.tokens, amount[p])
              THEN /\ target_time' = [target_time EXCEPT ![p] =
                         u.last_refill
                           + refill_interval * RefillsNeeded(u.tokens, amount[p])]
                   /\ apc' = [apc EXCEPT ![p] = "sleep"]
              ELSE /\ apc' = [apc EXCEPT ![p] = "debit"]
                   /\ UNCHANGED target_time
    /\ UNCHANGED <<max, refill_interval, refill_amount, now, amount, underflow>>

\* a task::sleep that returns at once
SleepOverAtOnce(p) == TRUE

\* task::sleep(sleep_duration) of task p has returned: sleep_duration is
\* target_time - Instant::now()
SleepOver(p) == now >= target_time[p]

\* task::sleep(sleep_duration) is over: the second update_tokens
AcquireWake(p) ==
    /\ apc[p] = "sleep"
    /\ SleepOver(p)
    /\ LET u == UpdateTokens(now)
       IN  /\ tokens' = u.tokens
           /\ last_refill' = u.last_refill
    /\ apc' = [apc EXCEPT ![p] = "debit"]
    /\ UNCHANGED <<max, refill_interval, refill_amount, lock, now, amount,
                   target_time, underflow>>

\* acquire returning without dropping _permit
PermitKept == lock

\* the holder of the mutex once _permit is dropped at the end of acquire
PermitDropped == NoHolder

\* `*self.tokens.write().unwrap() -= amount`, then _permit is dropped
AcquireDebit(p) ==
    /\ apc[p] = "debit"
    /\ tokens' = tokens - amount[p]
    /\ underflow' = (underflow \/ LtU32(tokens, amount[p]))
    /\ lock' = PermitDropped
    /\ apc' = [apc EXCEPT ![p] = "returned"]
    /\ target_time' = [target_time EXCEPT ![p] = 0]
    /\ UNCHANGED <<max, refill_interval, refill_amount, last_refill, now, amount>>

\* the monotonic clock advances
ClockTick ==
    /\ now + TimeStep <= MaxTime
    /\ now' = now + TimeStep
    /\ UNCHANGED <<max, refill_interval, refill_amount, tokens, last_refill, lock,
                   apc, amount, target_time, underflow>>

\* Builder::build: the bucket of builder().max(m).tokens(t).refill_interval(i)
Build(m, t, i) ==
    [max |-> UnwrapOr(m, DEFAULT_MAX),
     tokens |-> UnwrapOr(t, DEFAULT_TOKENS),
     refill_interval |-> UnwrapOr(i, DEFAULT_REFILL_INTERVAL),
     refill_amount |-> UnwrapOr(None, DEFAULT_REFILL_AMOUNT)]

\* LeakyBucketInner::new at time 0, no task inside acquire
NewBucket(b) ==
    /\ max = b.max
    /\ tokens = b.tokens
    /\ refill_interval = b.refill_interval
    /\ refill_amount = b.refill_amount
    /\ last_refill = 0
    /\ now = 0
    /\ lock = NoHolder
    /\ apc = [p \in Procs |-> "idle"]
    /\ amount = [p \in Procs |-> 0]
    /\ target_time = [p \in Procs |-> 0]
    /\ underflow = FALSE

(* ---------------------------- translate.rs ---------------------------- *)

\* get_target_lang without the "jp" pattern
get_target_lang_no_jp(src) ==
    IF src = "zh" THEN Some("en")
    ELSE IF src = "en" THEN Some("zh")
    ELSE None

\* get_target_lang
get_target_lang(src) ==
    IF src = "zh" THEN Some("en")
    ELSE IF src \in {"en", "jp"} THEN Some("zh")
    ELSE None

\* target_lang of translate_word without `match target`: always derived from the
\* source language
TargetLangDerived(source_lang) ==
    UnwrapOr(get_target_lang(source_lang), "en")

\* target_lang of translate_word
TargetLang(source_lang) ==
    IF target = None THEN UnwrapOr(get_target_lang(source_lang), "en") ELSE target[1]

\* target_text of the response to a TextTranslateRequest: the remote service's
\* translation of `text` into `tgt`
TargetText(text, tgt) == <<text, tgt>>

\* tencentcloud_api_retry without the RequestLimitExceeded arm
RetryMatchNoRetry(r) ==
    IF r = "Ok" THEN "return_ok" ELSE "return_err"

\* the match of tencentcloud_api_retry on the result r of the closure
RetryMatch(r) ==
    IF r = RATE_LIMIT_CODE THEN "continue"
    ELSE IF r = "Ok" THEN "return_ok"
    ELSE "return_err"

\* run_batch where an Err item does not end try_for_each
AfterMatchIgnoreErr(m) ==
    CASE m = "continue" -> "retry"
      [] m = "return_ok" -> "print"
      [] OTHER -> "next"

\* where run_batch goes after the match m of tencentcloud_api_retry: `continue`
\* invokes the closure again, Ok reaches try_for_each's print, and Err leaves
\* run_batch through and_then, try_for_each and `?`
AfterMatch(m) ==
    CASE m = "continue" -> "retry"
      [] m = "return_ok" -> "print"
      [] OTHER -> "done"

\* a stream that drops every other word
NextPositionSkip(c) == c + 2

\* FuturesOrdered::from_iter(words): the position of the word the stream yields
\* after the word at position c
NextPosition(c) == c + 1

\* what a word starts from: nothing invoked, sent or debited for it yet
StartWord(w) ==
    /\ cur' = w
    /\ calls' = 0
    /\ outcomes' = <<>>
    /\ debits' = 0
    /\ detects' = 0
    /\ translates' = 0

\* run_batch: and_then takes the next word of the stream once the previous word's
\* future and the print of its result are over, and starts tencentcloud_api_retry
\* on it; at the end of the stream try_for_each returns Ok
BatchNext ==
    /\ mode = "Batch"
    /\ jpc = "next"
    /\ IF cur < nwords
       THEN /\ StartWord(NextPosition(cur))
            /\ jpc' = "retry"
            /\ UNCHANGED result
       ELSE /\ jpc' = "done"
            /\ result' = "Ok"
            /\ UNCHANGED <<cur, calls, outcomes, debits, detects, translates>>
    /\ UNCHANGED <<mode, nwords, source, target, req, fres, translated, printed,
                   admits,
                   att, requests>>
    /\ UNCHANGED bucketVars
    /\ UNCHANGED <<obsVars, credVars>>

\* run_batch with bucket.acquire_one() before tencentcloud_api_retry instead of
\* inside its closure: only the first invocation acquires
RetryCallAcquireOnce ==
    /\ jpc = "retry"
    /\ calls' = calls + 1
    /\ IF calls = 0
       THEN AcquireCall(Task, 1) /\ jpc' = "acquire"
       ELSE jpc' = "translate_word" /\ UNCHANGED bucketVars
    /\ UNCHANGED <<mode, nwords, source, target, cur, outcomes, debits, detects,
                   translates, req, fres, translated, printed, result, admits,
                   att, requests>>
    /\ UNCHANGED <<obsVars, credVars>>

\* tencentcloud_api_retry: `f().await`; the closure of run_batch starts with
\* bucket.acquire_one()
RetryCall ==
    /\ jpc = "retry"
    /\ calls' = calls + 1
    /\ AcquireCall(Task, 1)
    /\ jpc' = "acquire"
    /\ UNCHANGED <<mode, nwords, source, target, cur, outcomes, debits, detects,
                   translates, req, fres, translated, printed, result, admits,
                   att, requests>>
    /\ UNCHANGED <<obsVars, credVars>>

\* acquire_one inside the closure: the mutex, update_tokens, the shortfall test
BatchAcquireLock ==
    /\ jpc = "acquire"
    /\ AcquireLock(Task)
    /\ UNCHANGED runVars
    /\ UNCHANGED <<obsVars, credVars>>

\* acquire_one inside the closure: the sleep is over
BatchAcquireWake ==
    /\ jpc = "acquire"
    /\ AcquireWake(Task)
    /\ UNCHANGED runVars
    /\ UNCHANGED <<obsVars, credVars>>

\* acquire_one inside the closure: the debit; the closure goes on to translate_word
BatchAcquireDebit ==
    /\ jpc = "acquire"
    /\ AcquireDebit(Task)
    /\ debits' = debits + 1
    /\ admits' = Append(admits, now)
    /\ jpc' = "translate_word"
    /\ UNCHANGED <<mode, nwords, source, target, cur, calls, outcomes, detects,
                   translates, req, fres, translated, printed, result,
                   att, requests>>
    /\ UNCHANGED <<obsVars, credVars>>

\* translate_word has sent no request and its result is dropped
NoAttempt == [detect |-> "none", translate |-> FALSE]

\* get_source_lang without the LanguageRecognitionErr arm
SourceLangNoFallback(code) == None

\* get_source_lang: the match on the error `code` of the LanguageDetect call:
\* Some(lang) for Ok(lang), None for Err(err)
SourceLang(code) ==
    IF code = RECOGNITION_CODE THEN Some("zh") ELSE None

\* translate_word sends the TextTranslateRequest for the source language sl, after
\* the LanguageDetect result d
SendTranslate(sl, d) ==
    /\ req' = [source_text |-> cur, source |-> sl, target |-> TargetLang(sl)]
    /\ translates' = translates + 1
    /\ requests' = requests + 1
    /\ att' = [detect |-> d, translate |-> TRUE]
    /\ jpc' = "translate"

\* translate_word returns r to its caller
ReturnWord(r) ==
    /\ fres' = r
    /\ outcomes' = IF mode = "Batch" THEN Append(outcomes, r) ELSE outcomes
    /\ jpc' = "returned"

\* translate_word keeping the source language of the word's previous attempt: only
\* the first attempt of a word calls get_source_lang
TranslateWordDetectOnce ==
    /\ jpc = "translate_word"
    /\ IF source = None /\ detects = 0
       THEN /\ detects' = detects + 1
            /\ requests' = requests + 1
            /\ att' = NoAttempt
            /\ jpc' = "detect"
            /\ UNCHANGED <<req, translates>>
       ELSE /\ IF source = None
               THEN SendTranslate(req.source, req.source)
               ELSE SendTranslate(source[1], "none")
            /\ UNCHANGED detects
    /\ UNCHANGED <<mode, nwords, source, target, cur, calls, outcomes, debits, fres,
                   translated, printed, result, admits>>
    /\ UNCHANGED bucketVars
    /\ UNCHANGED <<obsVars, credVars>>

\* translate_word: `match source`: get_source_lang sends the LanguageDetectRequest,
\* or the given source is used and the TextTranslateRequest is sent
TranslateWord ==
    /\ jpc = "translate_word"
    /\ IF source = None
       THEN /\ detects' = detects + 1
            /\ requests' = requests + 1
            /\ att' = NoAttempt
            /\ jpc' = "detect"
            /\ UNCHANGED <<req, translates>>
       ELSE /\ SendTranslate(source[1], "none")
            /\ UNCHANGED detects
    /\ UNCHANGED <<mode, nwords, source, target, cur, calls, outcomes, debits, fres,
                   translated, printed, result, admits>>
    /\ UNCHANGED bucketVars
    /\ UNCHANGED <<obsVars, credVars>>

\* the remote service may still answer RequestLimitExceeded for this word
MayRateLimit == mode # "Batch" \/ calls < MaxCalls

\* get_source_lang: the response to the LanguageDetectRequest is Ok(lang)
DetectOk(lang) ==
    /\ jpc = "detect"
    /\ SendTranslate(lang, lang)
    /\ UNCHANGED <<mode, nwords, source, target, cur, calls, outcomes, debits,
                   detects, fres, translated, printed, result, admits>>
    /\ UNCHANGED bucketVars
    /\ UNCHANGED <<obsVars, credVars>>

\* get_source_lang: the response is an error of code `code`
DetectErr(code) ==
    /\ jpc = "detect"
    /\ code = RATE_LIMIT_CODE => MayRateLimit
    /\ IF SourceLang(code) # None
       THEN /\ SendTranslate(SourceLang(code)[1], code)
            /\ UNCHANGED <<fres, outcomes>>
       ELSE /\ ReturnWord(code)
            /\ att' = [detect |-> code, translate |-> FALSE]
            /\ UNCHANGED <<req, translates, requests>>
    /\ UNCHANGED <<mode, nwords, source, target, cur, calls, debits, detects,
                   translated, printed, result, admits>>
    /\ UNCHANGED bucketVars
    /\ UNCHANGED <<obsVars, credVars>>

\* translate_word: the response to the TextTranslateRequest is Ok
TranslateOk ==
    /\ jpc = "translate"
    /\ translated' = TargetText(req.source_text, req.target)
    /\ ReturnWord("Ok")
    /\ UNCHANGED <<mode, nwords, source, target, cur, calls, debits, detects,
                   translates, req, printed, result, admits,
                   att, requests>>
    /\ UNCHANGED bucketVars
    /\ UNCHANGED <<obsVars, credVars>>

\* translate_word: the response to the TextTranslateRequest is an error
TranslateErr(code) ==
    /\ jpc = "translate"
    /\ code = RATE_LIMIT_CODE => MayRateLimit
    /\ ReturnWord(code)
    /\ UNCHANGED <<mode, nwords, source, target, cur, calls, debits, detects,
                   translates, req, translated, printed, result, admits,
                   att, requests>>
    /\ UNCHANGED bucketVars
    /\ UNCHANGED <<obsVars, credVars>>

\* tencentcloud_api_retry: the match on the closure's result
RetryReturn ==
    /\ mode = "Batch"
    /\ jpc = "returned"
    /\ LET m == RetryMatch(fres)
       IN  /\ jpc' = AfterMatch(m)
           /\ result' = IF m = "return_err" THEN fres ELSE result
    /\ att' = NoAttempt
    /\ UNCHANGED <<mode, nwords, source, target, cur, calls, outcomes, debits,
                   detects, translates, req, fres, translated, printed, admits,
                   requests>>
    /\ UNCHANGED bucketVars
    /\ UNCHANGED <<obsVars, credVars>>

\* translate_and_print: `self.translate_word(..).await?`
DirectReturn ==
    /\ mode # "Batch"
    /\ jpc = "returned"
    /\ IF fres = "Ok"
       THEN jpc' = "print" /\ UNCHANGED result
       ELSE jpc' = "done" /\ result' = fres
    /\ att' = NoAttempt
    /\ UNCHANGED <<mode, nwords, source, target, cur, calls, outcomes, debits,
                   detects, translates, req, fres, translated, printed, admits,
                   requests>>
    /\ UNCHANGED bucketVars
    /\ UNCHANGED <<obsVars, credVars>>

\* self.print(&word, &translated_word), in try_for_each or in translate_and_print
PrintWord ==
    /\ jpc = "print"
    /\ printed' = Append(printed, <<cur, translated>>)
    /\ IF mode = "FromStdin"
       THEN jpc' = "done" /\ result' = "Ok"
       ELSE jpc' = "next" /\ UNCHANGED result
    /\ UNCHANGED <<mode, nwords, source, target, cur, calls, outcomes, debits,
                   detects, translates, req, fres, translated, admits,
                   att, requests>>
    /\ UNCHANGED bucketVars
    /\ UNCHANGED <<obsVars, credVars>>

\* run_interact: the prompt answers a word
PromptWord ==
    /\ mode = "Interact"
    /\ jpc = "next"
    /\ cur < MaxWords
    /\ StartWord(cur + 1)
    /\ jpc' = "translate_word"
    /\ UNCHANGED <<mode, nwords, source, target, req, fres, translated, printed,
                   result, admits,
                   att, requests>>
    /\ UNCHANGED bucketVars
    /\ UNCHANGED <<obsVars, credVars>>

\* run_interact: the prompt answers the empty string
PromptEmpty ==
    /\ mode = "Interact"
    /\ jpc = "next"
    /\ jpc' = "done"
    /\ result' = "Ok"
    /\ UNCHANGED <<mode, nwords, source, target, cur, calls, outcomes, debits,
                   detects, translates, req, fres, translated, printed, admits,
                   att, requests>>
    /\ UNCHANGED bucketVars
    /\ UNCHANGED <<obsVars, credVars>>

\* run_interact: the prompt fails, and `?` returns its error
PromptErr ==
    /\ mode = "Interact"
    /\ jpc = "next"
    /\ jpc' = "done"
    /\ result' = "Io"
    /\ UNCHANGED <<mode, nwords, source, target, cur, calls, outcomes, debits,
                   detects, translates, req, fres, translated, printed, admits,
                   att, requests>>
    /\ UNCHANGED bucketVars
    /\ UNCHANGED <<obsVars, credVars>>

\* run_from_stdin: read_to_string fails, and `?` returns its error
ReadStdinErr ==
    /\ mode = "FromStdin"
    /\ jpc = "next"
    /\ jpc' = "done"
    /\ result' = "Io"
    /\ UNCHANGED <<mode, nwords, source, target, cur, calls, outcomes, debits,
                   detects, translates, req, fres, translated, printed, admits,
                   att, requests>>
    /\ UNCHANGED bucketVars
    /\ UNCHANGED <<obsVars, credVars>>

\* run_from_stdin: the input is read and handed to translate_and_print
ReadStdin ==
    /\ mode = "FromStdin"
    /\ jpc = "next"
    /\ StartWord(1)
    /\ jpc' = "translate_word"
    /\ UNCHANGED <<mode, nwords, source, target, req, fres, translated, printed,
                   result, admits,
                   att, requests>>
    /\ UNCHANGED bucketVars
    /\ UNCHANGED <<obsVars, credVars>>

\* the monotonic clock advances while run_batch is running (the bucket, which only
\* run_batch builds, is all that reads the clock)
RunTick ==
    /\ mode = "Batch"
    /\ jpc # "done"
    /\ now + TimeStep <= MaxRunTime
    /\ ClockTick
    /\ UNCHANGED runVars
    /\ UNCHANGED <<obsVars, credVars>>

(* ------------------- translate.rs: Translate::new --------------------- *)

\* the keys of the keyring entries, in the order Translate::new reads them
Keys == <<"secret_id", "secret_key", "region">>

\* what Entry::get_password returns: Err(Error::NoEntry), Ok of the empty string,
\* Ok of a non-empty string, or another Err (an Err of Entry::new included)
StoreStates == {"NoEntry", "Empty", "Stored", "Failure"}

\* the message of the anyhow! error of get_secret_id, get_secret_key and get_region
MISSING_ERR == "read from stdin must set secret_id, secret_key and region at first"

\* the position of Translate::new after the key at position i: the next key, or
\* Client::new and Ok(Self)
AfterKey(i) ==
    IF i < Len(Keys)
    THEN /\ npc' = [at |-> "get", key |-> i + 1]
         /\ UNCHANGED new_result
    ELSE /\ npc' = [at |-> "done", key |-> i]
         /\ new_result' = "Ok"

\* Translate::new returns the error e
NewErr(e) ==
    /\ npc' = [at |-> "done", key |-> npc.key]
    /\ new_result' = e

\* get_secret_id, get_secret_key, get_region: Entry::new, get_password and the match
\* on its result, up to the call of ask_secret_id, ask_secret_key or ask_region
GetPassword ==
    /\ npc.at = "get"
    /\ LET i == npc.key
           got == store[Keys[i]]
       IN  CASE got = "NoEntry" ->
                  IF from_stdin
                  THEN NewErr(MISSING_ERR) /\ UNCHANGED prompts
                  ELSE /\ npc' = [at |-> "ask", key |-> i]
                       /\ prompts' = Append(prompts, Keys[i])
                       /\ UNCHANGED new_result
             [] got = "Empty" ->
                  /\ npc' = [at |-> "ask", key |-> i]
                  /\ prompts' = Append(prompts, Keys[i])
                  /\ UNCHANGED new_result
             [] got = "Failure" -> NewErr("Failure") /\ UNCHANGED prompts
             [] OTHER -> AfterKey(i) /\ UNCHANGED prompts
    /\ UNCHANGED <<from_stdin, store, writes>>
    /\ UNCHANGED <<bucketVars, runVars, obsVars>>

\* ask_secret_id, ask_secret_key, ask_region return the non-empty answer, and
\* set_password stores it (set_ok) or fails
AskOk(set_ok) ==
    /\ npc.at = "ask"
    /\ writes' = Append(writes, Keys[npc.key])
    /\ IF set_ok
       THEN /\ store' = [store EXCEPT ![Keys[npc.key]] = "Stored"]
            /\ AfterKey(npc.key)
       ELSE /\ NewErr("Failure")
            /\ UNCHANGED store
    /\ UNCHANGED <<from_stdin, prompts>>
    /\ UNCHANGED <<bucketVars, runVars, obsVars>>

\* ask_secret_id, ask_secret_key, ask_region return an error: prompt_one failed, or
\* the answer is not a string or is empty
AskErr(e) ==
    /\ npc.at = "ask"
    /\ NewErr(e)
    /\ UNCHANGED <<from_stdin, store, prompts, writes>>
    /\ UNCHANGED <<bucketVars, runVars, obsVars>>

\* Translate::new(stdin) has returned Ok: every key is stored
NewReturned(stdin) ==
    /\ from_stdin = stdin
    /\ store = [k \in {Keys[i] : i \in 1..Len(Keys)} |-> "Stored"]
    /\ npc = [at |-> "done", key |-> Len(Keys)]
    /\ prompts = <<>>
    /\ writes = <<>>
    /\ new_result = "Ok"

(* -------------------- specification: Translate::run -------------------- *)

\* no acquire of the bucket is recorded
NotObserved ==
    /\ called_at = [p \in Procs |-> 0]
    /\ log = <<>>

\* Translate::run(mode, source, target); run_batch builds its bucket
InitRun ==
    /\ mode \in Modes
    /\ nwords \in IF mode = "Batch" THEN 1..MaxWords ELSE {0}
    /\ source \in {None} \cup {Some(l) : l \in Languages}
    /\ target \in {None} \cup {Some(l) : l \in Languages}
    /\ NewBucket(Build(Some(MAX_CONCURRENT), Some(MAX_CONCURRENT),
                       Some(REFILL_INTERVAL)))
    /\ cur = 0
    /\ jpc = "next"
    /\ calls = 0
    /\ outcomes = <<>>
    /\ debits = 0
    /\ detects = 0
    /\ translates = 0
    /\ req = [source_text |-> 0, source |-> "", target |-> ""]
    /\ fres = "Ok"
    /\ translated = <<0, "">>
    /\ printed = <<>>
    /\ result = "running"
    /\ admits = <<>>
    /\ att = NoAttempt
    /\ requests = 0
    /\ NotObserved
    /\ NewReturned(mode = "FromStdin")

NextRun ==
    \/ BatchNext
    \/ RetryCall
    \/ BatchAcquireLock
    \/ BatchAcquireWake
    \/ BatchAcquireDebit
    \/ TranslateWord
    \/ \E lang \in DetectedLangs : DetectOk(lang)
    \/ \E code \in {RATE_LIMIT_CODE, RECOGNITION_CODE} \cup OtherErrors : DetectErr(code)
    \/ TranslateOk
    \/ \E code \in {RATE_LIMIT_CODE, RECOGNITION_CODE} \cup OtherErrors : TranslateErr(code)
    \/ RetryReturn
    \/ DirectReturn
    \/ PrintWord
    \/ PromptWord
    \/ PromptEmpty
    \/ PromptErr
    \/ ReadStdin
    \/ ReadStdinErr
    \/ RunTick

SpecRun == InitRun /\ [][NextRun]_vars

(* ----------------- specification: one bucket, many tasks -------------- *)

\* Translate::run is not running
NoRun ==
    /\ mode = "Batch"
    /\ nwords = 0
    /\ source = None
    /\ target = None
    /\ cur = 0
    /\ jpc = "done"
    /\ calls = 0
    /\ outcomes = <<>>
    /\ debits = 0
    /\ detects = 0
    /\ translates = 0
    /\ req = [source_text |-> 0, source |-> "", target |-> ""]
    /\ fres = "Ok"
    /\ translated = <<0, "">>
    /\ printed = <<>>
    /\ result = "running"
    /\ admits = <<>>
    /\ att = NoAttempt
    /\ requests = 0
    /\ NotObserved

\* LeakyBucket::builder().max(m).tokens(t).refill_interval(i).build()
InitBucket ==
    /\ \E m \in 1..MaxCap, t \in 0..MaxCap,
          i \in {REFILL_INTERVAL, REFILL_INTERVAL + TimeStep} :
            NewBucket(Build(Some(m), Some(t), Some(i)))
    /\ NoRun
    /\ NewReturned(FALSE)

\* a task calls LeakyBucket::acquire(amt)
Acquire(p, amt) == AcquireCall(p, amt) /\ UNCHANGED <<runVars, obsVars, credVars>>

\* a task inside acquire gets the mutex
Lock(p) == AcquireLock(p) /\ UNCHANGED <<runVars, obsVars, credVars>>

\* a task inside acquire wakes from its sleep
Wake(p) == AcquireWake(p) /\ UNCHANGED <<runVars, obsVars, credVars>>

\* a task inside acquire debits and returns
Debit(p) == AcquireDebit(p) /\ UNCHANGED <<runVars, obsVars, credVars>>

\* the monotonic clock advances
Tick == ClockTick /\ UNCHANGED <<runVars, obsVars, credVars>>

NextBucket ==
    \/ \E p \in Procs, amt \in 1..(max + 1) : Acquire(p, amt)
    \/ \E p \in Procs : Lock(p)
    \/ \E p \in Procs : Wake(p)
    \/ \E p \in Procs : Debit(p)
    \/ Tick

SpecBucket == InitBucket /\ [][NextBucket]_vars

(* ------- specification: one bucket, one task, its acquires recorded ---- *)

\* the acquire of task p completes with its debit: its argument, the time of its
\* call, whether it went through task::sleep, the tokens it found, the time of its
\* return
Completed(p) ==
    [amount |-> amount[p], called |-> called_at[p], slept |-> target_time[p] # 0,
     found |-> tokens, returned |-> now]

\* a task calls LeakyBucket::acquire(amt), amt <= max, at the time `now`
ObsAcquire(p, amt) ==
    /\ Len(log) < 2
    /\ AcquireCall(p, amt)
    /\ called_at' = [called_at EXCEPT ![p] = now]
    /\ UNCHANGED <<runVars, log, credVars>>

\* a task inside acquire debits and returns
ObsDebit(p) ==
    /\ AcquireDebit(p)
    /\ log' = IF Len(log) < 2 THEN Append(log, Completed(p)) ELSE log
    /\ called_at' = [called_at EXCEPT ![p] = 0]
    /\ UNCHANGED <<runVars, credVars>>

\* the monotonic clock advances
ObsTick ==
    /\ now + TimeStep <= MaxObsTime
    /\ Tick

\* one task calls acquire time and again, each call after the previous one returned
NextObserved ==
    \/ \E amt \in 1..max : ObsAcquire(Task, amt)
    \/ Lock(Task)
    \/ Wake(Task)
    \/ ObsDebit(Task)
    \/ ObsTick

SpecObserved == InitBucket /\ [][NextObserved]_vars

(* ------- specification: one bucket, fair scheduling, time advancing ---- *)

\* the clock of the fair specification stops at FairHorizon, by which every acquire
\* called up to MaxFairCall can have completed: each of the NProcs acquires then
\* in progress needs at most MaxCap refills after its update_tokens and wakes at the
\* first clock value that is not before its target_time
FairHorizon ==
    MaxFairCall + NProcs * (MaxCap * (REFILL_INTERVAL + TimeStep) + TimeStep)

\* the executor can poll task p: the mutex it waits for is free, its sleep is over,
\* or it is about to debit
Runnable(p) ==
    \/ apc[p] = "lock" /\ LockFree
    \/ apc[p] = "sleep" /\ SleepOver(p)
    \/ apc[p] = "debit"

\* a task calls LeakyBucket::acquire(amt) with amt <= max
FairAcquire(p, amt) ==
    /\ now <= MaxFairCall
    /\ Acquire(p, amt)

\* the monotonic clock advances once no task is ready to be polled
FairTick ==
    /\ \A p \in Procs : ~Runnable(p)
    /\ now + TimeStep <= FairHorizon
    /\ now' = now + TimeStep
    /\ UNCHANGED <<max, refill_interval, refill_amount, tokens, last_refill, lock,
                   apc, amount, target_time, underflow>>
    /\ UNCHANGED <<runVars, obsVars, credVars>>

NextFair ==
    \/ \E p \in Procs, amt \in 1..max : FairAcquire(p, amt)
    \/ \E p \in Procs : Lock(p)
    \/ \E p \in Procs : Wake(p)
    \/ \E p \in Procs : Debit(p)
    \/ FairTick

\* the executor polls every task that is ready, the mutex is granted to every task
\* that keeps waiting for it, and time advances
Fairness ==
    /\ \A p \in Procs : SF_vars(Lock(p))
    /\ \A p \in Procs : WF_vars(Wake(p))
    /\ \A p \in Procs : WF_vars(Debit(p))
    /\ WF_vars(FairTick)

SpecFair == InitBucket /\ [][NextFair]_vars /\ Fairness

(* -------------------- specification: Translate::new -------------------- *)

\* lib.rs run calls Translate::new(from_stdin, ..) on any keyring; Translate::run
\* has not been called and the bucket, which run_batch builds, is not in use
InitNew ==
    /\ from_stdin \in BOOLEAN
    /\ store \in [{Keys[i] : i \in 1..Len(Keys)} -> StoreStates]
    /\ npc = [at |-> "get", key |-> 1]
    /\ prompts = <<>>
    /\ writes = <<>>
    /\ new_result = "running"
    /\ NewBucket(Build(None, None, None))
    /\ NoRun

NextNew ==
    \/ GetPassword
    \/ \E set_ok \in BOOLEAN : AskOk(set_ok)
    \/ \E e \in {"PromptFailed", "EmptyAnswer"} : AskErr(e)

SpecNew == InitNew /\ [][NextNew]_vars

(* ------------------------------- claims ------------------------------- *)

\* Translate::run is in batch mode and tencentcloud_api_retry has returned for the
\* current word: Ok (the word is about to be printed) or Err (run_batch returned it)
RetryReturned ==
    /\ mode = "Batch"
    /\ \/ jpc = "print"
       \/ jpc = "done" /\ result # "Ok"

\* C1: in batch mode the i-th line printed is the pair (word i, the remote service's
\* translation of word i), whatever the timing of the responses and the number of
\* retries: no later word is printed before an earlier one; and when run_batch
\* returns Ok exactly one line per word has been printed.
C1_BatchOrder ==
    mode = "Batch" =>
        /\ \A i \in 1..Len(printed) :
              /\ printed[i][1] = i
              /\ \E l \in DetectedLangs : printed[i][2] = TargetText(i, l)
        /\ result = "Ok" => Len(printed) = nwords

\* C1 witness: a batch of two or more words has been printed in full, the last word
\* after a retry, at a later time than the batch started.
C1_Witness ==
    /\ mode = "Batch"
    /\ result = "Ok"
    /\ nwords >= 2
    /\ Len(printed) = nwords
    /\ calls >= 2
    /\ now > 0

C4_AtMostFivePerSecond ==
    mode = "Batch" =>
        \A i \in 1..Len(admits) :
            Cardinality({j \in 1..Len(admits) :
                            /\ admits[i] - RATE_WINDOW < admits[j]
                            /\ admits[j] <= admits[i]}) <= RATE_CEILING

\* C5: tencentcloud_api_retry invokes its operation again only after a
\* RequestLimitExceeded result; when it returns, the operation has been invoked
\* exactly k + 1 times for k RequestLimitExceeded results followed by one other
\* result X, and X is what is returned.
C5_Retry ==
    mode = "Batch" =>
        /\ \A j \in 1..(Len(outcomes) - 1) : outcomes[j] = RATE_LIMIT_CODE
        /\ Len(outcomes) <= calls
        /\ calls <= Len(outcomes) + 1
        /\ (jpc = "retry" /\ calls > 0) =>
              (Len(outcomes) = calls /\ outcomes[calls] = RATE_LIMIT_CODE)
        /\ RetryReturned =>
              /\ Len(outcomes) = calls
              /\ outcomes[calls] # RATE_LIMIT_CODE
              /\ jpc = "print" => outcomes[calls] = "Ok"
              /\ jpc = "done" => result = outcomes[calls]

\* C5 witness: the results [RateLimited, RateLimited, Ok]: the success is returned
\* after exactly two retries.
C5_Witness ==
    /\ mode = "Batch"
    /\ jpc = "print"
    /\ calls = 3
    /\ outcomes = <<RATE_LIMIT_CODE, RATE_LIMIT_CODE, "Ok">>

\* C6: Translate::run never returns the RequestLimitExceeded error, in any mode.
C6_NeverSurfaced == result # RATE_LIMIT_CODE

\* C7: in batch mode, when run_batch has returned an error, it is the error of the
\* job at position cur, which is not RequestLimitExceeded, the words printed are
\* exactly those at the positions before cur, in input order, and nothing is
\* printed for cur or a later position.
C7_FirstFailure ==
    (mode = "Batch" /\ result \notin {"running", "Ok"}) =>
        /\ jpc = "done"
        /\ result = fres
        /\ result # RATE_LIMIT_CODE
        /\ Len(printed) = cur - 1
        /\ \A i \in 1..Len(printed) : printed[i][1] = i

\* C7 witness: the job of the second word of a longer batch failed after the first
\* word was printed.
C7_Witness ==
    /\ mode = "Batch"
    /\ result \in OtherErrors
    /\ cur = 2
    /\ Len(printed) = 1
    /\ printed[1][1] = 1

\* C8: in batch mode the units of work are launched without waiting for earlier
\* ones to finish: when the result of the word at position i has been printed,
\* the unit of the word at position i + 1 has already been launched.
C8_LaunchedWithoutWaiting ==
    mode = "Batch" =>
        \A i \in 1..(nwords - 1) : Len(printed) >= i => cur >= i + 1

C10_TargetFromSource ==
    (jpc = "translate" /\ target = None) =>
        /\ req.source = "zh" => req.target = "en"
        /\ req.source \in {"en", "jp"} => req.target = "zh"
        /\ req.source \notin {"zh", "en", "jp"} => req.target = "en"

\* C10 witness: a request for a word detected as "fr" is in flight with target "en".
C10_Witness ==
    /\ jpc = "translate"
    /\ target = None
    /\ source = None
    /\ req.source = "fr"
    /\ req.target = "en"

\* the codes of the errors of a remote call
ErrorCodes == {RATE_LIMIT_CODE, RECOGNITION_CODE} \cup OtherErrors

Drained ==
    /\ Len(log) >= 1
    /\ log[1].amount = max
    /\ log[1].found = max
    /\ log[1].called = 0
    /\ log[1].returned = 0

\* C12 as stated: on a bucket created with tokens = max, acquire(max) at creation
\* returns without suspending, and an acquire(1) called after it and before the first
\* refill interval is over returns no earlier than one refill_interval after its
\* own call.
C12_FullIntervalFromCall ==
    (/\ Drained
     /\ Len(log) >= 2
     /\ log[2].amount = 1
     /\ log[2].called < refill_interval)
        => /\ ~log[1].slept
           /\ log[2].returned - log[2].called >= refill_interval

\* C12 amended: on a bucket holding max tokens on which no acquire has completed,
\* acquire(max) does not sleep; after acquire(max) was made and completed at
\* creation, an acquire(1) called before the first refill interval is over sleeps,
\* if it gets the lock before that, until one refill_interval after the creation
\* of the bucket, and in every case returns no earlier than that instant.
C12_IntervalFromCreation ==
    /\ \A p \in Procs :
          (log = <<>> /\ tokens = max /\ amount[p] = max) => apc[p] # "sleep"
    /\ \A p \in Procs :
          (Drained /\ Len(log) = 1 /\ amount[p] = 1 /\ apc[p] = "sleep")
             => target_time[p] = refill_interval
    /\ (/\ Drained
        /\ Len(log) >= 2
        /\ log[2].amount = 1
        /\ log[2].called < refill_interval)
          => /\ ~log[1].slept
             /\ log[2].returned >= refill_interval

\* C12 witness: after the draining acquire(max), an acquire(1) called after the
\* creation and before the first refill slept and returned at the first refill
C12_Witness ==
    /\ Drained
    /\ Len(log) >= 2
    /\ log[2].amount = 1
    /\ log[2].called > 0
    /\ log[2].called < refill_interval
    /\ log[2].slept
    /\ log[2].returned = refill_interval

\* C13: acquire(amount) with amount > max panics on its assertion: the task never
\* queues for the lock, holds it, sleeps or debits, and the step in which it panics
\* leaves tokens, last_refill and the lock as they were; an acquire with
\* amount <= max does not panic; a panicked task goes no further.
C13_AssertionAborts ==
    /\ [](\A p \in Procs :
            /\ amount[p] > max => (apc[p] = "panicked" /\ lock # p)
            /\ apc[p] = "panicked" => amount[p] > max)
    /\ [][\A p \in Procs :
            /\ (apc[p] # "panicked" /\ apc'[p] = "panicked")
                  => (/\ tokens' = tokens
                      /\ last_refill' = last_refill
                      /\ lock' = lock
                      /\ underflow' = underflow
                      /\ now' = now)
            /\ apc[p] = "panicked" => apc'[p] = "panicked"]_vars

\* C13 witness: a task has panicked on acquire(max + 1) while another task holds the
\* lock and sleeps
C13_Witness ==
    \E p, q \in Procs :
        /\ apc[p] = "panicked"
        /\ amount[p] = max + 1
        /\ lock = q
        /\ apc[q] = "sleep"

\* C14: under fair scheduling, with time advancing, every acquire(amount) with
\* amount <= max that was called returns, whether it waits for the lock or sleeps,
\* and the step in which it returns debits exactly amount tokens.
C14_EveryAcquireReturns ==
    /\ \A p \in Procs : (apc[p] \in {"lock", "sleep", "debit"}) ~> (apc[p] = "returned")
    /\ [][\A p \in Procs :
            (apc[p] # "returned" /\ apc'[p] = "returned")
                => tokens' = tokens - amount[p]]_vars

\* C14 witness: a task that slept for its tokens is about to debit them while
\* another task waits for the lock
C14_Witness ==
    \E p, q \in Procs :
        /\ apc[p] = "debit"
        /\ target_time[p] > 0
        /\ now >= target_time[p]
        /\ apc[q] = "lock"
        /\ amount[q] = max

\* C15: a bucket built with tokens(t), t > max, holds at most max tokens in every
\* state from its construction on, the states before its first acquire included.
C15_SaturatedAtBuild == ~LtU32(max, tokens)

\* task p runs update_tokens in this step: on getting the lock, or on waking
RefillStep(p) ==
    \/ apc[p] = "lock" /\ apc'[p] \in {"sleep", "debit"}
    \/ apc[p] = "sleep" /\ apc'[p] = "debit"

InCriticalSection == {p \in Procs : apc[p] \in {"sleep", "debit"}}

\* C17: at most one task is between obtaining the lock and completing its debit, and
\* it is the holder of the lock; while a task holds the lock, asleep or not, no step
\* of another task changes tokens or last_refill, whatever the tokens available.
C17_OneCriticalSection ==
    /\ [](/\ Cardinality(InCriticalSection) <= 1
          /\ \A p \in Procs : p \in InCriticalSection <=> lock = p)
    /\ [][\A p \in Procs :
            (lock = p /\ apc'[p] = apc[p])
                => (tokens' = tokens /\ last_refill' = last_refill /\ lock' = p)]_vars

\* C17 witness: a task sleeps holding the lock while another task, whose amount the
\* tokens available would cover, waits for the lock
C17_Witness ==
    \E p, q \in Procs :
        /\ apc[p] = "sleep"
        /\ lock = p
        /\ apc[q] = "lock"
        /\ tokens >= amount[q]
        /\ now < target_time[p]

\* ceil(a / b) for a >= 0 and b > 0
CeilDiv(a, b) == (a + b - 1) \div b

C19_ResolutionOrder ==
    /\ [](/\ source # None =>
                /\ detects = 0
                /\ att.detect = "none"
                /\ att.translate => req.source = source[1]
          /\ (target # None /\ att.translate) => req.target = target[1]
          /\ (source = None /\ att.translate) =>
                /\ att.detect \in DetectedLangs \cup {RECOGNITION_CODE}
                /\ req.source = IF att.detect = RECOGNITION_CODE THEN "zh"
                                ELSE att.detect
          /\ jpc = "detect" => ~att.translate
          /\ jpc = "translate" => (att.translate /\ req.source_text = cur)
          /\ (jpc = "returned" /\ fres = "Ok") => att.translate
          /\ translates <= IF mode = "Batch" THEN calls ELSE 1
          /\ source = None => translates <= detects)
    /\ [][/\ (att'.translate /\ ~att.translate) <=> translates' = translates + 1
          /\ (att'.translate /\ att.translate) => UNCHANGED <<translates, req>>]_vars

\* C19 witness: with an explicit target and no explicit source, the TextTranslate
\* request is in flight after the LanguageDetect call answered a language whose
\* derived target would be another one
C19_Witness ==
    /\ source = None
    /\ target = Some("jp")
    /\ jpc = "translate"
    /\ att.detect = "en"
    /\ req.source = "en"
    /\ req.target = "jp"
    /\ detects = 1
    /\ translates = 1

\* C20: in batch mode a LanguageDetect or TextTranslate request is in flight only in
\* an attempt for which the bucket has debited a token, one debit per attempt of
\* the word, and the requests sent in the run are at most twice the tokens debited
\* in it; every request is sent in a step that debits nothing.
C20_GatedByBucket ==
    /\ [](mode = "Batch" =>
            /\ jpc \in {"translate_word", "detect", "translate"} =>
                  (debits = calls /\ debits >= 1 /\ apc[Task] = "returned")
            /\ detects + translates <= 2 * debits
            /\ requests <= 2 * Len(admits))
    /\ [][(mode = "Batch" /\ requests' # requests) =>
            /\ requests' = requests + 1
            /\ debits' = debits
            /\ admits' = admits
            /\ debits = calls
            /\ debits >= 1]_vars

\* C20 witness: the second attempt of the second word has both its requests out;
\* the run has debited three tokens and sent six requests
C20_Witness ==
    /\ mode = "Batch"
    /\ cur = 2
    /\ calls = 2
    /\ debits = 2
    /\ jpc = "translate"
    /\ Len(admits) = 3
    /\ requests = 6

\* C21: when Translate::new is called with from_stdin it has prompted for no key and
\* called set_password for no key, and it has returned Ok only if get_password gave
\* a non-empty value for each of the three keys.
C21_StdinNeverPrompts ==
    from_stdin =>
        /\ prompts = <<>>
        /\ writes = <<>>
        /\ new_result = "Ok" => \A i \in 1..Len(Keys) : store[Keys[i]] = "Stored"

\* the source language get_source_lang resolves to on the LanguageDetect result d
Resolved(d) == IF d = RECOGNITION_CODE THEN "zh" ELSE d

\* C22: in batch mode with no explicit source, every attempt of a word sends its own
\* LanguageDetect request, also the attempts that follow a rate-limited TextTranslate:
\* the LanguageDetect requests of the word are as many as its attempts (one less
\* while the latest attempt has not reached translate_word yet); a TextTranslate
\* request is sent only from an attempt's own detection, and its source and target
\* are those resolved from that detection, whatever the request before it was.
C22_DetectPerAttempt ==
    /\ []((mode = "Batch" /\ source = None) =>
            /\ detects = calls - (IF jpc \in {"acquire", "translate_word"} THEN 1 ELSE 0)
            /\ translates <= detects)
    /\ [][(mode = "Batch" /\ source = None /\ translates' = translates + 1) =>
            /\ jpc = "detect"
            /\ detects = calls
            /\ att'.detect \in DetectedLangs \cup {RECOGNITION_CODE}
            /\ req' = [source_text |-> cur,
                       source |-> Resolved(att'.detect),
                       target |-> TargetLang(Resolved(att'.detect))]]_vars

\* C22 witness: the TextTranslate of the first attempt was rate limited; the second
\* attempt has detected again and sent its TextTranslate with the source and the
\* target of the second detection
C22_Witness ==
    /\ mode = "Batch"
    /\ source = None
    /\ target = None
    /\ calls = 2
    /\ outcomes = <<RATE_LIMIT_CODE>>
    /\ detects = 2
    /\ translates = 2
    /\ jpc = "translate"
    /\ att.detect = "zh"
    /\ req.source = "zh"
    /\ req.target = "en"

\* run_batch has returned the error of a job
BatchFailed == mode = "Batch" /\ result \notin {"running", "Ok"}

\* C23: in batch mode the attempt in progress is that of the word at position cur
\* and every word before it has been printed: a word is started only from the word
\* before it, once that one is printed; once the job at position cur has failed
\* with an error that is not RequestLimitExceeded, run_batch is over with that
\* task out of acquire, and from the failing step on no word is started, no token
\* is debited and no request is sent.
C23_NothingAfterFailure ==
    /\ [](mode = "Batch" =>
            /\ jpc \in {"retry", "acquire", "translate_word", "detect", "translate",
                        "returned", "print"}
                  => (cur >= 1 /\ Len(printed) = cur - 1)
            /\ BatchFailed =>
                  /\ jpc = "done"
                  /\ result # RATE_LIMIT_CODE
                  /\ apc[Task] = "returned"
                  /\ lock = NoHolder)
    /\ [][BatchFailed =>
            UNCHANGED <<cur, calls, debits, admits, detects, translates, requests,
                        tokens, apc, printed>>]_vars
    /\ [][(mode = "Batch" /\ cur' # cur) =>
            /\ cur' = cur + 1
            /\ jpc = "next"
            /\ Len(printed) = cur
            /\ result = "running"]_vars
    /\ [][(mode = "Batch" /\ (admits' # admits \/ requests' # requests)) =>
            /\ result = "running"
            /\ result' = "running"
            /\ cur' = cur]_vars

\* C23 witness: the job of the first word of a batch of two has failed after a retry;
\* nothing is printed and the second word was never started
C23_Witness ==
    /\ BatchFailed
    /\ nwords = 2
    /\ cur = 1
    /\ calls = 2
    /\ Len(admits) = 2
    /\ requests >= 2
    /\ printed = <<>>

====
